---- MODULE Spec2Model ----
(***************************************************************************)
(* Model of s3-compare (src/main.py): S3BucketComparer and main().         *)
(*                                                                         *)
(* One invocation lists the source bucket, lists the target bucket,        *)
(* classifies every key of the union and renders a report.  A second       *)
(* classification pass over the unchanged snapshots, with the same or with *)
(* swapped roles, is modelled so that relational properties (symmetry,     *)
(* repeatability) can be stated over the two results.                      *)
(***************************************************************************)
EXTENDS Integers, Sequences, FiniteSets, TLC

\* ---------------------------------------------------------------- bounds
\* Largest number of pages one paginated listing yields.
MaxPages == 2

\* ---------------------------------------------------------------- domains
\* Object keys, in lexicographic order.
KeySeq == <<"a", "b">>
Keys == {KeySeq[i] : i \in 1..Len(KeySeq)}
Rank(k) == CHOOSE i \in 1..Len(KeySeq) : KeySeq[i] = k

Buckets == {"b1", "b2"}
Sizes == {10, 20}
Tags == {"x", "y"}
Times == {1}
\* Object bodies the store can hold.
Contents == {"c1", "c2"}
\* Outcome of get_object / Body.read when the store fails.
FetchError == "error"
\* Python's None, as returned by _calculate_md5 on failure.
None == "None"

Metadata == [Size : Sizes, ETag : Tags, LastModified : Times]

EmptyDict == [k \in {} |-> 0]

\* sorted(keys): the keys of S in lexicographic order.
SortKeys(S) ==
  CHOOSE s \in [1..Cardinality(S) -> S] :
    \A i, j \in 1..Cardinality(S) : i < j => Rank(s[i]) < Rank(s[j])

\* ---------------------------------------------------------------- listing
\* One page of list_objects_v2: either no 'Contents' entry, or a non-empty
\* list of entries in ascending key order, all after the keys already listed.
PageOf(ks, f) ==
  [hasContents |-> TRUE,
   Contents |-> [i \in 1..Cardinality(ks) |->
                   [Key |-> SortKeys(ks)[i],
                    Size |-> f[SortKeys(ks)[i]].Size,
                    ETag |-> f[SortKeys(ks)[i]].ETag,
                    LastModified |-> f[SortKeys(ks)[i]].LastModified]]]

Pages(after) ==
  LET avail == {k \in Keys : \A j \in after : Rank(k) > Rank(j)}
  IN  {[hasContents |-> FALSE, Contents |-> <<>>]} \cup
      UNION {{PageOf(ks, f) : f \in [ks -> Metadata]} : ks \in (SUBSET avail) \ {{}}}

\* objects[obj['Key']] = {...}
PutObject(objects, obj) ==
  [k \in DOMAIN objects \cup {obj.Key} |->
     IF k = obj.Key
       THEN [Size |-> obj.Size, ETag |-> obj.ETag, LastModified |-> obj.LastModified]
       ELSE objects[k]]

RECURSIVE AddContents(_, _)
AddContents(objects, contents) ==
  IF contents = <<>> THEN objects
  ELSE AddContents(PutObject(objects, Head(contents)), Tail(contents))

\* Mutant: only the first entry of a page is stored.
AddPage_FirstEntry(objects, page) ==
  IF page.hasContents THEN PutObject(objects, Head(page.Contents)) ELSE objects

\* Body of the `for page in paginator.paginate(...)` loop.
AddPage(objects, page) ==
  IF page.hasContents THEN AddContents(objects, page.Contents) ELSE objects

\* Mutant: the listing error is swallowed and the partial dict is returned.
GetBucketObjectsOnError_Swallow(objects) ==
  [raised |-> FALSE, value |-> objects]

\* except Exception in get_bucket_objects: log, then re-raise.
GetBucketObjectsOnError(objects) ==
  [raised |-> TRUE, value |-> EmptyDict]

\* ---------------------------------------------------------------- hashing
\* hashlib.md5 over the whole body; distinct bodies give distinct digests here.
Md5(content) == IF content = "c1" THEN "d1" ELSE "d2"

\* Mutant: the except clause of _calculate_md5 does not catch the error.
Md5Catches_Nothing(exc) == FALSE

\* `except Exception` in _calculate_md5.
Md5Catches(exc) == exc = "Exception"

\* _calculate_md5 on the outcome of the fetch: a digest, None, or a raise.
CalculateMd5(fetched) ==
  IF fetched = FetchError
    THEN IF Md5Catches("Exception")
           THEN [raised |-> FALSE, value |-> None]
           ELSE [raised |-> TRUE, value |-> None]
    ELSE [raised |-> FALSE, value |-> Md5(fetched)]

\* Mutant: the None check is missing, so two failed digests compare equal.
CompareFileHashes_NoNoneCheck(source_hash, target_hash) ==
  source_hash = target_hash

\* _compare_file_hashes, given the two results of _calculate_md5.
CompareFileHashes(source_hash, target_hash) ==
  IF source_hash = None \/ target_hash = None THEN FALSE
  ELSE source_hash = target_hash

\* ---------------------------------------------------------------- classifier
Categories ==
  {"extra_in_target", "missing_in_target", "size_mismatch", "etag_mismatch",
   "content_mismatch"}

\* The key reaches the `if self.compare_hashes and not ...` call of line 129.
NeedsHash(key, so, to, ie, ch) ==
  /\ key \in DOMAIN so
  /\ key \in DOMAIN to
  /\ so[key].Size = to[key].Size
  /\ ~(~ie /\ so[key].ETag # to[key].ETag)
  /\ ch

\* Mutant: the tag is compared before the size.
Decide_TagFirst(key, so, to, ie, ch, sh, th) ==
  IF key \notin DOMAIN so THEN "extra_in_target"
  ELSE IF key \notin DOMAIN to THEN "missing_in_target"
  ELSE IF ~ie /\ so[key].ETag # to[key].ETag THEN "etag_mismatch"
  ELSE IF so[key].Size # to[key].Size THEN "size_mismatch"
  ELSE IF ch /\ ~CompareFileHashes(sh, th) THEN "content_mismatch"
  ELSE "matched"

\* Mutant: a failed digest leaves the key in no category.
Decide_Unverifiable(key, so, to, ie, ch, sh, th) ==
  IF key \notin DOMAIN so THEN "extra_in_target"
  ELSE IF key \notin DOMAIN to THEN "missing_in_target"
  ELSE IF so[key].Size # to[key].Size THEN "size_mismatch"
  ELSE IF ~ie /\ so[key].ETag # to[key].ETag THEN "etag_mismatch"
  ELSE IF ch /\ (sh = None \/ th = None) THEN "unverifiable"
  ELSE IF ch /\ ~CompareFileHashes(sh, th) THEN "content_mismatch"
  ELSE "matched"

\* Mutant: a size mismatch is reported only when the source is larger.
Decide_SizeGreater(key, so, to, ie, ch, sh, th) ==
  IF key \notin DOMAIN so THEN "extra_in_target"
  ELSE IF key \notin DOMAIN to THEN "missing_in_target"
  ELSE IF so[key].Size > to[key].Size THEN "size_mismatch"
  ELSE IF ~ie /\ so[key].ETag # to[key].ETag THEN "etag_mismatch"
  ELSE IF ch /\ ~CompareFileHashes(sh, th) THEN "content_mismatch"
  ELSE "matched"

\* Mutant: ignore_etags is not consulted.
Decide_FlagUnused(key, so, to, ie, ch, sh, th) ==
  IF key \notin DOMAIN so THEN "extra_in_target"
  ELSE IF key \notin DOMAIN to THEN "missing_in_target"
  ELSE IF so[key].Size # to[key].Size THEN "size_mismatch"
  ELSE IF so[key].ETag # to[key].ETag THEN "etag_mismatch"
  ELSE IF ch /\ ~CompareFileHashes(sh, th) THEN "content_mismatch"
  ELSE "matched"

\* Body of the `for key in all_keys` loop: the branch taken for one key.
Decide(key, so, to, ie, ch, sh, th) ==
  IF key \notin DOMAIN so THEN "extra_in_target"
  ELSE IF key \notin DOMAIN to THEN "missing_in_target"
  ELSE IF so[key].Size # to[key].Size THEN "size_mismatch"
  ELSE IF ~ie /\ so[key].ETag # to[key].ETag THEN "etag_mismatch"
  ELSE IF ch /\ ~CompareFileHashes(sh, th) THEN "content_mismatch"
  ELSE "matched"

\* differences[cat].add(key) on a defaultdict(set): a dict keeps its keys in
\* insertion order, so it is a sequence of <<category, key set>> entries.
HasCat(d, cat) == \E i \in 1..Len(d) : d[i].cat = cat

DictAdd(d, cat, key) ==
  IF HasCat(d, cat)
    THEN [i \in 1..Len(d) |->
            IF d[i].cat = cat THEN [cat |-> cat, keys |-> d[i].keys \cup {key}]
            ELSE d[i]]
    ELSE Append(d, [cat |-> cat, keys |-> {key}])

\* The key set of a category in the returned dict, empty when the category
\* was never added.
CatSet(d, cat) ==
  IF HasCat(d, cat) THEN (CHOOSE e \in {d[i] : i \in 1..Len(d)} : e.cat = cat).keys
  ELSE {}

\* ---------------------------------------------------------------- main
\* Mutant: a bare `except:` that also catches SystemExit.
MainCatches_All(exc) == TRUE

\* `except Exception` of main: SystemExit is not an Exception.
MainCatches(exc) == exc = "Exception"

\* Exit status of the process when sys.exit(code) is called inside the try.
ExitStatus(code) == IF MainCatches("SystemExit") THEN 1 ELSE code

\* diff_type.replace('_', ' ').title()
Title(cat) ==
  CASE cat = "extra_in_target" -> "Extra In Target"
    [] cat = "missing_in_target" -> "Missing In Target"
    [] cat = "size_mismatch" -> "Size Mismatch"
    [] cat = "etag_mismatch" -> "Etag Mismatch"
    [] cat = "content_mismatch" -> "Content Mismatch"

\* any(differences.values())
AnyDifferences(d) == \E i \in 1..Len(d) : d[i].keys # {}

\* The lines main logs: the two counts, then either the "identical" line or
\* one header per non-empty category, in dict order, with its keys sorted.
Render(d, st) ==
  [total |-> st.total_files,
   matched |-> st.matched_files,
   identical |-> ~AnyDifferences(d),
   sections |-> IF ~AnyDifferences(d) THEN <<>>
                ELSE [i \in 1..Len(d) |->
                        [header |-> Title(d[i].cat), keys |-> SortKeys(d[i].keys)]]]

NoStats == [total_files |-> 0, matched_files |-> 0]
NoReport == [total |-> 0, matched |-> 0, identical |-> FALSE, sections |-> <<>>]
NoResult == [differences |-> <<>>, stats |-> NoStats, report |-> NoReport]

\* ---------------------------------------------------------------- state
VARIABLES
  pc,              \* "start", "list_source", "list_target", "classify", "exit"
  run,             \* 1: the invocation; 2: the second classification pass
  swapped,         \* pass 2 runs with source and target exchanged
  source_bucket, target_bucket,
  ignore_etags, compare_hashes,
  pending,         \* per bucket: the paginator has a further page to request
  pagesRead,       \* per bucket: pages read so far by the listing in progress
  listCalls,       \* per bucket: calls of paginate()
  listed,          \* per bucket: the entries the paginator has yielded
  failed,          \* bucket whose listing raised, or "none"
  objects,         \* local dict of get_bucket_objects
  source_objects, target_objects,
  have,            \* buckets whose snapshot get_bucket_objects has returned
  todo,            \* keys of all_keys the loop has not visited yet
  differences, stats,
  outcome,         \* per visited key: the branch the loop took
  body,            \* per bucket: what get_object gave for the keys fetched
  report, reported, status,
  first            \* result of pass 1, kept for comparison with pass 2

vars ==
  <<pc, run, swapped, source_bucket, target_bucket, ignore_etags, compare_hashes,
    pending, pagesRead, listCalls, listed, failed, objects, source_objects,
    target_objects, have, todo, differences, stats, outcome, body, report,
    reported, status, first>>

optVars == <<ignore_etags, compare_hashes>>
listVars == <<pending, pagesRead, listCalls, listed, failed, objects, have>>
passVars == <<todo, differences, stats, outcome>>
exitVars == <<report, reported, status>>

\* Value of `status` while the process has not exited.
Running == -1

\* __init__ and argparse: the two options are the inputs of the run.
Init ==
  /\ pc = "start"
  /\ run = 1
  /\ swapped = FALSE
  /\ source_bucket = "b1"
  /\ target_bucket = "b2"
  /\ ignore_etags \in BOOLEAN
  /\ compare_hashes \in BOOLEAN
  /\ pending = [b \in Buckets |-> TRUE]
  /\ pagesRead = [b \in Buckets |-> 0]
  /\ listCalls = [b \in Buckets |-> 0]
  /\ listed = [b \in Buckets |-> EmptyDict]
  /\ failed = "none"
  /\ objects = EmptyDict
  /\ source_objects = EmptyDict
  /\ target_objects = EmptyDict
  /\ have = {}
  /\ todo = {}
  /\ differences = <<>>
  /\ stats = NoStats
  /\ outcome = EmptyDict
  /\ body = [b \in Buckets |-> EmptyDict]
  /\ report = NoReport
  /\ reported = FALSE
  /\ status = Running
  /\ first = NoResult

Listing == pc \in {"list_source", "list_target"}
CurBucket == IF pc = "list_source" THEN source_bucket ELSE target_bucket

\* main -> compare_buckets -> get_bucket_objects(source): paginate() is called.
CompareBuckets ==
  /\ pc = "start"
  /\ pc' = "list_source"
  /\ listCalls' = [listCalls EXCEPT ![source_bucket] = @ + 1]
  /\ UNCHANGED <<run, swapped, source_bucket, target_bucket, optVars, pending,
                 pagesRead, listed, failed, objects, source_objects,
                 target_objects, have, passVars, body, exitVars, first>>

\* `return objects`, and what compare_buckets does with the snapshot: after the
\* source, list the target; after the target, set up the loop (lines 104-110).
ReturnSnapshot(objs) ==
  /\ objects' = EmptyDict
  /\ pagesRead' = [pagesRead EXCEPT ![CurBucket] = 0]
  /\ have' = have \cup {CurBucket}
  /\ IF pc = "list_source"
       THEN /\ source_objects' = objs
            /\ pc' = "list_target"
            /\ listCalls' = [listCalls EXCEPT ![target_bucket] = @ + 1]
            /\ UNCHANGED <<target_objects, passVars>>
       ELSE /\ target_objects' = objs
            /\ pc' = "classify"
            /\ todo' = DOMAIN source_objects \cup DOMAIN objs
            /\ stats' = [total_files |-> Cardinality(DOMAIN source_objects \cup DOMAIN objs),
                         matched_files |-> 0]
            /\ differences' = <<>>
            /\ UNCHANGED <<source_objects, listCalls, outcome>>

\* One iteration of `for page in paginator.paginate(Bucket=bucket_name)`.
ListPage ==
  /\ Listing
  /\ pending[CurBucket]
  /\ pagesRead[CurBucket] < MaxPages
  /\ \E page \in Pages(DOMAIN listed[CurBucket]), more \in BOOLEAN :
       /\ pagesRead[CurBucket] + 1 = MaxPages => ~more
       /\ objects' = AddPage(objects, page)
       /\ listed' = [listed EXCEPT ![CurBucket] = AddContents(@, page.Contents)]
       /\ pending' = [pending EXCEPT ![CurBucket] = more]
       /\ pagesRead' = [pagesRead EXCEPT ![CurBucket] = @ + 1]
  /\ UNCHANGED <<pc, run, swapped, source_bucket, target_bucket, optVars,
                 listCalls, failed, source_objects, target_objects, have,
                 passVars, body, exitVars, first>>

\* The request for the next page raises: get_bucket_objects logs and re-raises,
\* compare_buckets lets it through, main's handler logs and exits with 1.
ListError ==
  /\ Listing
  /\ pending[CurBucket]
  /\ pagesRead[CurBucket] < MaxPages
  /\ failed' = CurBucket
  /\ LET r == GetBucketObjectsOnError(objects)
     IN  IF r.raised
           THEN /\ pc' = "exit"
                /\ status' = 1
                /\ objects' = EmptyDict
                /\ UNCHANGED <<pagesRead, listCalls, source_objects,
                               target_objects, have, passVars>>
           ELSE /\ ReturnSnapshot(r.value)
                /\ UNCHANGED status
  /\ UNCHANGED <<run, swapped, source_bucket, target_bucket, optVars, pending,
                 listed, body, report, reported, first>>

\* The paginator is exhausted: the loop ends and the dict is returned.
ListReturn ==
  /\ Listing
  /\ ~pending[CurBucket]
  /\ ReturnSnapshot(objects)
  /\ UNCHANGED <<run, swapped, source_bucket, target_bucket, optVars, pending,
                 listed, failed, body, exitVars, first>>

\* What get_object can give for (bucket, key): the object's body does not
\* change once it has been read.
FetchResults(b, key) ==
  IF key \in DOMAIN body[b] THEN {body[b][key]} ELSE Contents \cup {FetchError}

Fetched(bd, b, key, res) ==
  [bd EXCEPT ![b] = [k \in DOMAIN bd[b] \cup {key} |->
                       IF k = key THEN res ELSE bd[b][k]]]

\* Lines 113-132 for one key, once its branch is known.
Record(key, oc) ==
  /\ todo' = todo \ {key}
  /\ differences' = IF oc \in Categories THEN DictAdd(differences, oc, key)
                    ELSE differences
  /\ stats' = IF oc = "matched"
                THEN [stats EXCEPT !.matched_files = @ + 1]
                ELSE stats
  /\ outcome' = [k \in DOMAIN outcome \cup {key} |->
                   IF k = key THEN oc ELSE outcome[k]]
  /\ UNCHANGED <<pc, exitVars>>

\* One iteration of `for key in all_keys`; a set is visited in any order.
ClassifyKey ==
  /\ pc = "classify"
  /\ \E key \in todo :
       IF NeedsHash(key, source_objects, target_objects, ignore_etags, compare_hashes)
         THEN \E sf \in FetchResults(source_bucket, key),
                 tf \in FetchResults(target_bucket, key) :
                LET sh == CalculateMd5(sf)
                    th == CalculateMd5(tf)
                IN  IF sh.raised
                      THEN /\ body' = Fetched(body, source_bucket, key, sf)
                           /\ pc' = "exit"
                           /\ status' = 1
                           /\ UNCHANGED <<passVars, report, reported>>
                      ELSE IF th.raised
                      THEN /\ body' = Fetched(Fetched(body, source_bucket, key, sf),
                                              target_bucket, key, tf)
                           /\ pc' = "exit"
                           /\ status' = 1
                           /\ UNCHANGED <<passVars, report, reported>>
                      ELSE /\ body' = Fetched(Fetched(body, source_bucket, key, sf),
                                              target_bucket, key, tf)
                           /\ Record(key, Decide(key, source_objects, target_objects,
                                                 ignore_etags, compare_hashes,
                                                 sh.value, th.value))
         ELSE /\ Record(key, Decide(key, source_objects, target_objects,
                                    ignore_etags, compare_hashes, None, None))
              /\ UNCHANGED body
  /\ UNCHANGED <<run, swapped, source_bucket, target_bucket, optVars, listVars,
                 source_objects, target_objects, first>>

\* compare_buckets returns; main logs the report and calls sys.exit.
Report ==
  /\ pc = "classify"
  /\ todo = {}
  /\ report' = Render(differences, stats)
  /\ reported' = TRUE
  /\ status' = IF ~AnyDifferences(differences) THEN ExitStatus(0) ELSE ExitStatus(1)
  /\ pc' = "exit"
  /\ UNCHANGED <<run, swapped, source_bucket, target_bucket, optVars, listVars,
                 source_objects, target_objects, passVars, body, first>>

\* A second pass of compare_buckets over the unchanged snapshots and objects,
\* with the two buckets in the same roles or exchanged.
Rerun(sw) ==
  /\ pc = "exit"
  /\ run = 1
  /\ reported
  /\ run' = 2
  /\ swapped' = sw
  /\ first' = [differences |-> differences, stats |-> stats, report |-> report]
  /\ source_bucket' = IF sw THEN target_bucket ELSE source_bucket
  /\ target_bucket' = IF sw THEN source_bucket ELSE target_bucket
  /\ source_objects' = IF sw THEN target_objects ELSE source_objects
  /\ target_objects' = IF sw THEN source_objects ELSE target_objects
  /\ todo' = DOMAIN source_objects \cup DOMAIN target_objects
  /\ stats' = [total_files |-> Cardinality(DOMAIN source_objects \cup DOMAIN target_objects),
               matched_files |-> 0]
  /\ differences' = <<>>
  /\ outcome' = EmptyDict
  /\ report' = NoReport
  /\ reported' = FALSE
  /\ status' = Running
  /\ pc' = "classify"
  /\ UNCHANGED <<optVars, listVars, body>>

Next ==
  \/ CompareBuckets
  \/ ListPage
  \/ ListError
  \/ ListReturn
  \/ ClassifyKey
  \/ Report
  \/ \E sw \in BOOLEAN : Rerun(sw)

Spec == Init /\ [][Next]_vars

\* ---------------------------------------------------------------- properties
AllKeys == DOMAIN source_objects \cup DOMAIN target_objects
Done == pc = "exit" /\ reported
MatchedKeys == {k \in DOMAIN outcome : outcome[k] = "matched"}
CategoriesOf(k) == {c \in Categories : k \in CatSet(differences, c)}
SumOfCategories ==
  Cardinality(CatSet(differences, "extra_in_target"))
  + Cardinality(CatSet(differences, "missing_in_target"))
  + Cardinality(CatSet(differences, "size_mismatch"))
  + Cardinality(CatSet(differences, "etag_mismatch"))
  + Cardinality(CatSet(differences, "content_mismatch"))

\* The loop asked for the digests of k in the current pass.
Hashed(k) ==
  /\ k \in DOMAIN outcome
  /\ NeedsHash(k, source_objects, target_objects, ignore_etags, compare_hashes)
  /\ k \in DOMAIN body[source_bucket]
  /\ k \in DOMAIN body[target_bucket]

\* A digest of k could not be computed, on the source side, the target side or both.
HashFailed(k) ==
  /\ Hashed(k)
  /\ body[source_bucket][k] = FetchError \/ body[target_bucket][k] = FetchError

\* The decision of the specification's algorithm (4.2, steps 1-6) for key k.
Reference(k) ==
  IF k \notin DOMAIN source_objects THEN "extra_in_target"
  ELSE IF k \notin DOMAIN target_objects THEN "missing_in_target"
  ELSE IF source_objects[k].Size # target_objects[k].Size THEN "size_mismatch"
  ELSE IF ~ignore_etags /\ source_objects[k].ETag # target_objects[k].ETag
    THEN "etag_mismatch"
  ELSE IF /\ compare_hashes
          /\ k \in DOMAIN body[source_bucket]
          /\ k \in DOMAIN body[target_bucket]
          /\ Md5(body[source_bucket][k]) # Md5(body[target_bucket][k])
    THEN "content_mismatch"
  ELSE "matched"

\* C1: after compare_buckets completes, total_files is the number of keys of
\* the union, every key of the union is in exactly one of the five categories
\* or matched, and matched_files plus the category sizes equals total_files,
\* also when content hashing failed for some keys.
C1_Partition ==
  Done =>
    /\ stats.total_files = Cardinality(AllKeys)
    /\ DOMAIN outcome = AllKeys
    /\ \A c \in Categories : CatSet(differences, c) \subseteq AllKeys
    /\ \A k \in AllKeys :
         Cardinality(CategoriesOf(k)) + (IF k \in MatchedKeys THEN 1 ELSE 0) = 1
    /\ stats.matched_files = Cardinality(MatchedKeys)
    /\ stats.matched_files + SumOfCategories = stats.total_files

C1_Witness ==
  /\ Done
  /\ \E j, k \in AllKeys : j # k /\ HashFailed(j) /\ k \in MatchedKeys

\* C2: when every requested digest computes, each key's outcome is the
\* reference decision: extra, else missing, else size, else tag (unless
\* ignored), else content (when verifying and the digests differ), else matched.
C2_ReferenceDecision ==
  (Done /\ \A k \in AllKeys : ~HashFailed(k)) =>
    \A k \in AllKeys :
      /\ outcome[k] = Reference(k)
      /\ Reference(k) \in Categories => CategoriesOf(k) = {Reference(k)}
      /\ Reference(k) = "matched" => CategoriesOf(k) = {}

C2_Witness ==
  /\ Done
  /\ \A k \in AllKeys : ~HashFailed(k)
  /\ \E j, k \in DOMAIN source_objects \cap DOMAIN target_objects :
       /\ source_objects[j].Size # target_objects[j].Size
       /\ source_objects[j].ETag # target_objects[j].ETag
       /\ outcome[j] = "size_mismatch"
       /\ Hashed(k)
       /\ outcome[k] = "content_mismatch"

\* C3 as stated: a key whose digest could not be computed is neither counted
\* as matched nor placed in content_mismatch nor in any other category.
C3_Unverifiable ==
  Done =>
    \A k \in AllKeys :
      HashFailed(k) => k \notin MatchedKeys /\ CategoriesOf(k) = {}

\* C3 as amended: a key whose digest could not be computed is not counted as
\* matched and is placed in content_mismatch, and in no other category.
C3_FailedDigestIsContentMismatch ==
  Done =>
    \A k \in AllKeys :
      HashFailed(k) =>
        /\ k \notin MatchedKeys
        /\ CategoriesOf(k) = {"content_mismatch"}
        /\ stats.matched_files = Cardinality(MatchedKeys)

C3_Witness ==
  /\ Done
  /\ \E k \in AllKeys :
       /\ HashFailed(k)
       /\ body[source_bucket][k] = FetchError
       /\ body[target_bucket][k] = FetchError

\* C4: with both listings successful the run exits with 0 exactly when every
\* category is empty and with 1 otherwise; two empty buckets give total 0 and
\* status 0.
C4_ExitStatus ==
  (pc = "exit" /\ failed = "none") =>
    /\ reported
    /\ status = IF \A c \in Categories : CatSet(differences, c) = {} THEN 0 ELSE 1
    /\ AllKeys = {} => stats.total_files = 0 /\ status = 0

C4_Witness ==
  /\ pc = "exit"
  /\ failed = "none"
  /\ status = 0
  /\ Cardinality(AllKeys) = 2

\* C5: a listing error on any page ends the run with status 1: no snapshot of
\* that bucket is returned, no key is classified, no totals or report
\* are produced, no body is fetched, nothing is listed twice, and after a
\* source failure the target is never listed.
C5_ListingFailureIsFatal ==
  failed # "none" =>
    /\ pc = "exit"
    /\ status = 1
    /\ failed \notin have
    /\ ~reported /\ report = NoReport
    /\ outcome = EmptyDict /\ differences = <<>> /\ stats = NoStats /\ todo = {}
    /\ \A b \in Buckets : body[b] = EmptyDict /\ listCalls[b] <= 1
    /\ failed = source_bucket =>
         /\ listCalls[target_bucket] = 0
         /\ listed[target_bucket] = EmptyDict
         /\ pending[target_bucket]
         /\ have = {}

C5_Witness ==
  /\ failed = target_bucket
  /\ pagesRead[target_bucket] >= 1
  /\ listed[target_bucket] # EmptyDict
  /\ source_objects # EmptyDict

\* C6: classifying (T, S) after (S, T) exchanges missing_in_target and
\* extra_in_target and leaves the other three categories and both counts equal.
C6_SwapSymmetry ==
  (Done /\ run = 2 /\ swapped) =>
    /\ CatSet(differences, "missing_in_target") = CatSet(first.differences, "extra_in_target")
    /\ CatSet(differences, "extra_in_target") = CatSet(first.differences, "missing_in_target")
    /\ \A c \in {"size_mismatch", "etag_mismatch", "content_mismatch"} :
         CatSet(differences, c) = CatSet(first.differences, c)
    /\ stats = first.stats

C6_Witness ==
  /\ Done /\ run = 2 /\ swapped
  /\ CatSet(differences, "missing_in_target") # {}
  /\ CatSet(differences, "extra_in_target") = {}
  /\ CatSet(differences, "content_mismatch") # {}

\* C7: the rendered report (counts, sequence of headers, sorted keys under
\* each header) of a second pass over unchanged snapshots equals the first.
C7_SameReport ==
  (Done /\ run = 2 /\ ~swapped) => report = first.report

SnapshotOf(b) == IF b = source_bucket THEN source_objects ELSE target_objects

\* C8: get_bucket_objects merges every page it reads, and a returned snapshot
\* holds exactly the entries of all pages of the listing, each key with the
\* size, tag and last-modified listed for it, with no page left unread.
C8_ListingDrained ==
  /\ Listing => objects = listed[CurBucket]
  /\ \A b \in have :
       /\ SnapshotOf(b) = listed[b]
       /\ ~pending[b]

\* The target listing has just ended after MaxPages pages, one of them without
\* Contents, and the source snapshot returned before it holds every key.
C8_Witness ==
  /\ pc = "list_target"
  /\ source_bucket \in have
  /\ DOMAIN source_objects = Keys
  /\ ~pending[target_bucket]
  /\ pagesRead[target_bucket] = MaxPages
  /\ Cardinality(DOMAIN objects) = MaxPages - 1

\* C9: an error while fetching or hashing one key never aborts the run:
\* compare_buckets returns, total_files is the size of the union, and every
\* other key has the outcome of the reference decision.
C9_HashErrorAbsorbed ==
  (pc = "exit" /\ failed = "none") =>
    /\ reported
    /\ stats.total_files = Cardinality(AllKeys)
    /\ \A j, k \in AllKeys :
         (j # k /\ HashFailed(j) /\ ~HashFailed(k)) => outcome[k] = Reference(k)

C9_Witness ==
  /\ Done
  /\ \E j, k \in AllKeys :
       /\ j # k
       /\ HashFailed(j)
       /\ Hashed(k) /\ ~HashFailed(k)
       /\ outcome[k] = "matched"

\* C10: with ignore_etags set no key is in etag_mismatch, and every key in
\* both snapshots with equal sizes ends matched or in content_mismatch.
C10_TagsIgnored ==
  ignore_etags =>
    /\ ~HasCat(differences, "etag_mismatch")
    /\ \A k \in DOMAIN outcome :
         (/\ k \in DOMAIN source_objects
          /\ k \in DOMAIN target_objects
          /\ source_objects[k].Size = target_objects[k].Size)
         => outcome[k] \in {"matched", "content_mismatch"}

C10_Witness ==
  /\ Done
  /\ ignore_etags
  /\ \E j, k \in DOMAIN outcome :
       /\ j \in DOMAIN source_objects /\ j \in DOMAIN target_objects
       /\ source_objects[j].Size = target_objects[j].Size
       /\ source_objects[j].ETag # target_objects[j].ETag
       /\ outcome[j] = "matched"
       /\ k \in DOMAIN source_objects /\ k \in DOMAIN target_objects
       /\ source_objects[k].ETag # target_objects[k].ETag
       /\ outcome[k] = "content_mismatch"

====
